---- MODULE Spec2Model ----
(***************************************************************************)
(* Model of src/msg/async/rdma/Device.cc: the lifecycle of an RDMA Device  *)
(* (Device::Device, init, uninit, ~Device, post_chunk,                     *)
(* post_channel_cluster), its ports and queue pairs (Port::Port,           *)
(* binding_port, create_queue_pair), and the multi-device polling of       *)
(* DeviceList (poll_tx, poll_rx, poll_blocking, rearm_notify).             *)
(*                                                                         *)
(* Objects created with new / ibv_create_* are modelled as generations of  *)
(* their pointer field: a pointer is 0 (null) or the number of the         *)
(* allocation it came from, and each kind keeps the set of generations     *)
(* that are still live.  A pointer whose generation is not live dangles.   *)
(* Undefined behaviour (use of a dangling pointer, double delete, signed   *)
(* overflow, out-of-bounds read) is a choice between the outcomes named    *)
(* in the `ub` input of the step that runs into it.                        *)
(***************************************************************************)
EXTENDS Integers, Sequences, FiniteSets, TLC

VARIABLES devices, last_poll_dev, crashed, last, thr, pb

vars == <<devices, last_poll_dev, crashed, last, thr, pb>>

(***************************************************************************)
(* Bounds of the model.                                                    *)
(***************************************************************************)
\* number of devices ibv_get_device_list reports (DeviceList::num)
NumDevices == 2
\* how many objects of one kind a Device may create (caps re-initialisation)
MaxInits == 2
\* how many chunks get_channel_buffers may hand out
MaxChunks == 2
\* width in bits of the signed cursor last_poll_dev in the model
CursorBits == 4
\* how many times one poll_blocking call may run the wait primitive
MaxWaits == 2
\* how many completion events a channel may hold, read or unread
MaxEvents == 1
\* how many bytes a GID has in the model (16 in the code)
GidLen == 2
\* how many entries the GID table of a port may have
MaxTable == 4
\* how many physical ports a device may report (phys_port_cnt)
MaxPorts == 2

Dev == 0 .. (NumDevices - 1)

\* the owned objects of a Device, by the name of the field that points to them
Channels == {"tx_cc", "rx_cc"}
Queues == {"tx_cq", "rx_cq"}
Owned == {"pd", "memory_manager", "srq", "tx_cq", "rx_cq"}
Kinds == Owned \cup Channels \cup {"active_port", "ctxt"}

\* what the constructor creates (l.120, l.131-135): the native handle and
\* both channels
Opened == Channels \cup {"ctxt"}

\* the completion channel a completion queue is created on (init, l.172-175)
ChannelOf(q) == IF q = "tx_cq" THEN "tx_cc" ELSE "rx_cc"

(***************************************************************************)
(* Pointers and the heap.  v is the state of one Device.                   *)
(***************************************************************************)
IsLive(v, k) == v.ptr[k] \in v.live[k]

\* what a step with undefined behaviour may do
Outcomes == {"crash", "continue"}

\* k = new ... : a fresh object, the field points to it
New(v, k) ==
  LET g == v.made[k] + 1 IN
  [v EXCEPT !.made[k] = g, !.ptr[k] = g, !.live[k] = @ \cup {g}]

\* field k = NULL (a factory that returned NULL)
SetNull(v, k) == [v EXCEPT !.ptr[k] = 0]

Fatal(v) == [v EXCEPT !.fatal = TRUE]

\* delete k : frees the object; deleting null is a no-op; deleting a dangling
\* pointer is undefined: the allocator aborts or the free goes unnoticed
\* what goes away with the object: a channel's events, a queue's requests
Gone(v, k) ==
  IF k \in Channels THEN [v EXCEPT !.pending[k] = 0, !.unacked[k] = 0]
  ELSE IF k = "srq"
       THEN [v EXCEPT !.posted = {}, !.cluster = {},
                      !.tried = [c \in 1 .. MaxChunks |-> 0]]
  ELSE v

Delete(v, k, ub) ==
  IF v.ptr[k] = 0 THEN v
  ELSE IF IsLive(v, k) THEN Gone([v EXCEPT !.live[k] = @ \ {v.ptr[k]}], k)
  ELSE IF ub = "crash" THEN Fatal(v)
  ELSE v

\* a use of field k (k->...): a null pointer faults, a dangling one is a use
\* after free that faults or goes on
Deref(v, k, ub, then) ==
  IF v.ptr[k] = 0 THEN Fatal(v)
  ELSE IF ~IsLive(v, k) /\ ub = "crash" THEN Fatal(v)
  ELSE then

(***************************************************************************)
(* Device::post_chunk (l.297-316).  sub.ret is what ibv_post_srq_recv      *)
(* returned, sub.errno the value of errno when it returned.                *)
(***************************************************************************)
\* 0 and one error number (ENOMEM, 12) stand for the values of an int result
Errnos == {0, 12}

Submissions == [ret : Errnos, errno : Errnos]

post_chunk(sub) == IF sub.ret # 0 THEN 0 - sub.errno ELSE 0

\* the shared receive queue after submitting chunk c: the work request is
\* queued exactly when the verb returned 0
Submit(v, c, sub) ==
  IF sub.ret = 0 THEN [v EXCEPT !.posted = @ \cup {c}] ELSE v

(***************************************************************************)
(* Device::post_channel_cluster (l.318-328).  e.chunks is the count        *)
(* get_channel_buffers returned (the chunks are 1 .. e.chunks), e.sub[c]   *)
(* the outcome of submitting chunk c.  v.cluster keeps the chunks handed   *)
(* out and v.tried[c] how often chunk c was passed to post_chunk.          *)
(***************************************************************************)
RECURSIVE PostLoop(_, _, _)
PostLoop(c, v, e) ==
  IF c > e.chunks THEN v
  ELSE LET r == post_chunk(e.sub[c])
           w == [Submit(v, c, e.sub[c]) EXCEPT !.tried[c] = @ + 1]
       IN Deref(v, "srq", e.ub,             \* ibv_post_srq_recv(srq, ...)
                IF r # 0 THEN Fatal(w)      \* assert(r == 0)
                ELSE PostLoop(c + 1, w, e))

post_channel_cluster(v, e) ==
  LET w == [v EXCEPT !.cluster = 1 .. e.chunks,
                     !.tried = [c \in 1 .. MaxChunks |-> 0]] IN
  Deref(v, "memory_manager", e.ub,          \* memory_manager->get_channel_buffers
        IF ~(e.chunks > 0) THEN Fatal(w)    \* assert(r > 0)
        ELSE PostLoop(1, w, e))

(***************************************************************************)
(* Device::create_comp_queue (l.285-295) on channel field cc.              *)
(* CompletionQueue::init reads the channel: on a released channel that is  *)
(* a use after free, which crashes or yields a queue on the dead channel.  *)
(***************************************************************************)
create_comp_queue(v, q, e) ==
  LET cc == ChannelOf(q) IN
  IF e.fail = q THEN SetNull(v, q)
  ELSE IF ~IsLive(v, cc) /\ e.ub = "crash" THEN Fatal(v)
  ELSE [New(v, q) EXCEPT !.bound[q] = v.ptr[cc]]

(***************************************************************************)
(* The integer types: int is CursorBits wide in the model, uint32_t as     *)
(* wide without the sign.  The limits of init (l.155-159) are std::min of  *)
(* an int capability and a configured uint32_t count cast to int; the cast *)
(* of a count above the int maximum keeps the bits (the value less 2^w).   *)
(***************************************************************************)
RECURSIVE Pow2(_)
Pow2(n) == IF n = 0 THEN 1 ELSE 2 * Pow2(n - 1)

IntMax == Pow2(CursorBits - 1) - 1
IntMin == 0 - Pow2(CursorBits - 1)
UintMax == Pow2(CursorBits) - 1

\* (int)u for an unsigned u
to_int(u) == IF u > IntMax THEN u - Pow2(CursorBits) ELSE u

\* std::min(a, b)
std_min(a, b) == IF b < a THEN b ELSE a

\* the limit without the cast: the smaller of the two numbers
work_requests_uncast(cap, count) == std_min(cap, count)

\* std::min(device_attr->max_..._wr, (int)cct->_conf->ms_async_rdma_..._buffers)
work_requests(cap, count) == std_min(cap, to_int(count))

compute_limits(v) ==
  [v EXCEPT
     !.max_recv_wr = work_requests(v.device_attr.max_srq_wr,
                                   v.conf.ms_async_rdma_receive_buffers),
     !.max_send_wr = work_requests(v.device_attr.max_qp_wr,
                                   v.conf.ms_async_rdma_send_buffers)]

(***************************************************************************)
(* Port::Port (l.32-108), the build with the experimental verbs.  hw is    *)
(* the port as the hardware has it: hw.query_fails = ibv_query_port        *)
(* returns -1, hw.state the link state, hw.gid_tbl the GID table (entry    *)
(* i of the code is hw.gid_tbl[i + 1]), hw.gid_fails the table indices at  *)
(* which a GID query fails.  conf.ms_async_rdma_local_gid is the           *)
(* configured string as the sequence of its hex byte groups.               *)
(***************************************************************************)
Bytes == {0, 1}
Gids == [1 .. GidLen -> Bytes]
RoceVers == {1, 2}

\* what sscanf converts: the leading groups, at most GidLen of them; its
\* result is their number
sscanf_gid(str) ==
  SubSeq(str, 1, IF Len(str) < GidLen THEN Len(str) ELSE GidLen)

\* the scan of the table from index i (l.70-88)
RECURSIVE GidScan(_, _, _, _, _)
GidScan(i, hw, malformed, cgid, ver) ==
  IF ~(i < Len(hw.gid_tbl)) THEN [gid_idx |-> i, fatal |-> FALSE]
  ELSE IF i \in hw.gid_fails              \* a query fails: ceph_abort
       THEN [gid_idx |-> i, fatal |-> TRUE]
  ELSE IF malformed THEN [gid_idx |-> i, fatal |-> FALSE]
  ELSE IF hw.gid_tbl[i + 1].type = ver /\ hw.gid_tbl[i + 1].gid = cgid
       THEN [gid_idx |-> i, fatal |-> FALSE]
  ELSE GidScan(i + 1, hw, malformed, cgid, ver)

NoPort == [port_num |-> 0, state |-> "none", gid_idx |-> 0, fatal |-> FALSE]

Port(hw, conf, ipn) ==
  IF hw.query_fails                       \* r == -1: ceph_abort (l.41-44)
  THEN [port_num |-> ipn, state |-> "none", gid_idx |-> 0, fatal |-> TRUE]
  ELSE
    LET cgid == sscanf_gid(conf.ms_async_rdma_local_gid)
        malformed == Len(cgid) # GidLen                       \* r != 16
        s == GidScan(0, hw, malformed, cgid, conf.ms_async_rdma_roce_ver)
        notfound == (s.gid_idx = Len(hw.gid_tbl))              \* l.90-93
    IN [port_num |-> ipn, state |-> hw.state, gid_idx |-> s.gid_idx,
        fatal |-> s.fatal \/ notfound]

(***************************************************************************)
(* Device::binding_port (l.214-231).  Port objects are the generations of  *)
(* the field active_port; v.active_port keeps what the adopted Port holds. *)
(***************************************************************************)
\* the loop from i (l.216-226): port = new Port(i + 1), adopted or deleted
RECURSIVE BindLoop(_, _, _)
BindLoop(i, v, port_num) ==
  IF ~(i < Len(v.ports)) THEN v
  ELSE
    LET port == Port(v.ports[i + 1], v.conf, i + 1)
        g == v.made["active_port"] + 1
        w == [v EXCEPT !.made["active_port"] = g,
                       !.live["active_port"] = @ \cup {g}]
    IN IF port.fatal THEN Fatal(w)                 \* ceph_abort in Port::Port
       ELSE IF i + 1 = port_num /\ port.state = "active"
       THEN [w EXCEPT !.ptr["active_port"] = g, !.active_port = port]
       ELSE BindLoop(i + 1,
                     [w EXCEPT !.live["active_port"] = @ \ {g}],  \* delete port
                     port_num)

binding_port(v, port_num) ==
  LET w == BindLoop(0, v, port_num) IN
  IF w.fatal THEN w
  ELSE IF w.ptr["active_port"] = 0 THEN Fatal(w)   \* assert(active_port)
  ELSE w

(***************************************************************************)
(* Device::create_queue_pair (l.243-253).  The queue pair keeps the port   *)
(* number, the pointers srq, tx_cq, rx_cq and the two limits it is         *)
(* constructed with.  e.qp_init is what QueuePair::init returns (0 or an   *)
(* error); when it is run on a pointer that is null or dangles, the use    *)
(* of that pointer faults or goes on (e.ub).  The result is the returned   *)
(* queue pair, or null, and whether the call faulted.                      *)
(***************************************************************************)
NoQp == [null |-> TRUE, port_num |-> 0, srq |-> 0, tx_cq |-> 0, rx_cq |-> 0,
         max_send_wr |-> 0, max_recv_wr |-> 0]

QpEnv == [qp_init : Errnos, ub : Outcomes]

create_queue_pair(v, e) ==
  IF v.ptr["active_port"] = 0              \* active_port->get_port_num()
  THEN [qp |-> NoQp, fatal |-> TRUE]
  ELSE
    LET qp == [null |-> FALSE, port_num |-> v.active_port.port_num,
               srq |-> v.ptr["srq"], tx_cq |-> v.ptr["tx_cq"],
               rx_cq |-> v.ptr["rx_cq"],
               max_send_wr |-> v.max_send_wr, max_recv_wr |-> v.max_recv_wr]
        broken == \E k \in {"srq", "tx_cq", "rx_cq"} : ~IsLive(v, k)
    IN IF broken /\ e.ub = "crash" THEN [qp |-> NoQp, fatal |-> TRUE]
       ELSE IF e.qp_init # 0 THEN [qp |-> NoQp, fatal |-> FALSE]  \* delete qp
       ELSE [qp |-> qp, fatal |-> FALSE]

(***************************************************************************)
(* Device::~Device (l.202-212).  e.fail is the call that reports an error  *)
(* (ibv_destroy_srq or ibv_close_device), e.ub the outcome of releasing    *)
(* through a dangling pointer.  The result is the Device and the kinds of  *)
(* object the destructor released although they were released before.      *)
(***************************************************************************)
DestroyEnv == [fail : {"none", "destroy_srq", "close"}, ub : Outcomes]

destroy(v, e) ==
  LET a == IF v.ptr["srq"] = 0 THEN Fatal(v)       \* ibv_destroy_srq(NULL)
           ELSE IF IsLive(v, "srq") /\ e.fail = "destroy_srq"
                THEN Fatal(v)                      \* assert(... == 0)
           ELSE Delete(v, "srq", e.ub)
      b == IF a.fatal THEN a ELSE Delete(a, "memory_manager", e.ub)
      c == IF b.fatal THEN b ELSE Delete(b, "pd", e.ub)
      d == IF c.fatal \/ c.ptr["active_port"] = 0 THEN c   \* if (active_port)
           ELSE LET p == Delete(c, "active_port", e.ub) IN
                IF p.fatal THEN p
                ELSE IF e.fail = "close" THEN Fatal(p)     \* assert(... == 0)
                ELSE Delete(p, "ctxt", e.ub)
  IN [v |-> [d EXCEPT !.destroyed = TRUE],
      twice |-> IF d.fatal THEN {}
                ELSE {k \in {"srq", "memory_manager", "pd"} :
                        v.ptr[k] # 0 /\ ~IsLive(v, k)}]

(***************************************************************************)
(* Device::init (l.138-180), one step per statement.  pc names the         *)
(* statement about to run; "done" is the return, "fatal" a ceph_abort, a   *)
(* failed assert or a crash.  e is what the environment answers: e.fail    *)
(* the call that fails (if any), e.chunks and e.sub the receive pool and   *)
(* its submissions, e.ub the outcome of undefined behaviour.               *)
(***************************************************************************)
EarlyFails == {"query", "nonblock", "srq"}
LateFails == {"none", "tx_cq", "rx_cq"}

\* a pool of one chunk whose submission succeeds
OneChunk == [i \in 1 .. 1 |-> [ret |-> 0, errno |-> 0]]

\* the answers that differ in what init does: a call that fails before the
\* receive pool is read leaves the pool's answers unused
InitEnv ==
  {[fail |-> f, chunks |-> 1, sub |-> OneChunk, ub |-> u] :
     f \in EarlyFails, u \in Outcomes}
  \cup UNION {[fail : LateFails, chunks : {n},
               sub : [1 .. n -> Submissions], ub : Outcomes] :
              n \in 0 .. MaxChunks}

\* nothing fails: every call succeeds, the pool is not empty and every
\* submission is accepted
HardwareOk(e) ==
  /\ e.fail = "none"
  /\ e.chunks > 0
  /\ \A c \in 1 .. e.chunks : e.sub[c].ret = 0

\* the answers of hardware on which nothing fails
InitOk ==
  {[fail |-> "none", chunks |-> 1, sub |-> OneChunk, ub |-> u] : u \in Outcomes}

Step(pc, v) == [pc |-> IF v.fatal THEN "fatal" ELSE pc, v |-> v]

\* the assert left out: a null queue goes unnoticed
assert_created_off(v, q) == v

\* assert(tx_cq) / assert(rx_cq) (l.173, l.176)
assert_created(v, q) == IF v.ptr[q] = 0 THEN Fatal(v) ELSE v

\* the early return left out: init always runs its body
already_initialized_off(v) == FALSE

\* the test of init's early return (l.142)
already_initialized(v) == v.initialized

\* the test of uninit's early return (l.184)
not_initialized(v) == ~v.initialized

InitStep(pc, v, e) ==
  CASE pc = "lock" ->          \* Mutex::Locker l(lock)
         IF v.lock THEN Step("lock", v)
         ELSE Step("check", [v EXCEPT !.lock = TRUE])
    [] pc = "check" ->         \* if (initialized) return
         IF already_initialized(v) THEN Step("unlock", v) ELSE Step("query", v)
    [] pc = "query" ->         \* ibv_query_device, abort on -1
         Step("pd", IF e.fail = "query" THEN Fatal(v) ELSE v)
    [] pc = "pd" ->            \* pd = new ProtectionDomain
         Step("nonblock", New(v, "pd"))
    [] pc = "nonblock" ->      \* assert(set_nonblock(...) == 0)
         Step("limits", IF e.fail = "nonblock" THEN Fatal(v) ELSE v)
    [] pc = "limits" ->        \* max_recv_wr = ...; max_send_wr = ...
         Step("mm", compute_limits(v))
    [] pc = "mm" ->            \* memory_manager = new MemoryManager(this, pd, ...)
         Step("srq", Deref(v, "pd", e.ub, New(v, "memory_manager")))
    [] pc = "srq" ->           \* srq = create_shared_receive_queue(...)
         Step("cluster",
              Deref(v, "pd", e.ub,
                    IF e.fail = "srq" THEN SetNull(v, "srq")
                    ELSE [New(v, "srq") EXCEPT !.posted = {}]))
    [] pc = "cluster" ->       \* post_channel_cluster()
         Step("tx_cq", post_channel_cluster(v, e))
    [] pc = "tx_cq" ->         \* tx_cq = create_comp_queue(cct, tx_cc); assert
         LET w == create_comp_queue(v, "tx_cq", e) IN
         Step("rx_cq", IF w.fatal THEN w ELSE assert_created(w, "tx_cq"))
    [] pc = "rx_cq" ->         \* rx_cq = create_comp_queue(cct, rx_cc); assert
         LET w == create_comp_queue(v, "rx_cq", e) IN
         Step("flag", IF w.fatal THEN w ELSE assert_created(w, "rx_cq"))
    [] pc = "flag" ->          \* initialized = true
         Step("unlock", [v EXCEPT !.initialized = TRUE])
    [] pc = "unlock" ->        \* ~Locker
         Step("done", [v EXCEPT !.lock = FALSE])

(***************************************************************************)
(* Device::uninit (l.182-200), one step per statement.                     *)
(***************************************************************************)
\* CompletionChannel::ack_events on channel field cc
ack_events(v, cc, ub) ==
  Deref(v, cc, ub, IF IsLive(v, cc) THEN [v EXCEPT !.unacked[cc] = 0] ELSE v)

UninitStep(pc, v, ub) ==
  CASE pc = "check" ->         \* if (!initialized) return
         IF not_initialized(v) THEN Step("done", v) ELSE Step("ack_tx", v)
    [] pc = "ack_tx" -> Step("ack_rx", ack_events(v, "tx_cc", ub))
    [] pc = "ack_rx" -> Step("flag", ack_events(v, "rx_cc", ub))
    [] pc = "flag" ->          \* initialized = false
         Step("del_rx_cq", [v EXCEPT !.initialized = FALSE])
    [] pc = "del_rx_cq" -> Step("del_tx_cq", Delete(v, "rx_cq", ub))
    [] pc = "del_tx_cq" -> Step("del_rx_cc", Delete(v, "tx_cq", ub))
    [] pc = "del_rx_cc" -> Step("del_tx_cc", Delete(v, "rx_cc", ub))
    [] pc = "del_tx_cc" -> Step("del_srq", Delete(v, "tx_cc", ub))
    [] pc = "del_srq" -> Step("del_mm", Delete(v, "srq", ub))
    [] pc = "del_mm" -> Step("del_pd", Delete(v, "memory_manager", ub))
    [] pc = "del_pd" -> Step("done", Delete(v, "pd", ub))

\* a whole call: the steps from the first statement to the return or the abort
RECURSIVE RunInit(_, _, _)
RunInit(pc, v, e) ==
  IF pc \in {"done", "fatal"} THEN v
  ELSE LET s == InitStep(pc, v, e) IN RunInit(s.pc, s.v, e)

RECURSIVE RunUninit(_, _, _)
RunUninit(pc, v, ub) ==
  IF pc \in {"done", "fatal"} THEN v
  ELSE LET s == UninitStep(pc, v, ub) IN RunUninit(s.pc, s.v, ub)

init(v, e) == RunInit("lock", v, e)

uninit(v, ub) == RunUninit("check", v, ub)

(***************************************************************************)
(* Device::poll_tx_cq / poll_rx_cq (l.335-349) on queue field q; n is what *)
(* the completion queue's poll_cq returns (a count, or -1 on error).       *)
(***************************************************************************)
PollResults == {-1, 0, 1}

poll_cq(v, q, n, oob) ==
  IF ~v.initialized THEN [n |-> 0, crash |-> FALSE]
  ELSE IF v.ptr[q] = 0 \/ (~IsLive(v, q) /\ oob = "crash")
       THEN [n |-> 0, crash |-> TRUE]
  ELSE [n |-> n, crash |-> FALSE]

(***************************************************************************)
(* Device::poll_tx_cq, poll_rx_cq and rearm_cqs (l.335-363), one step per  *)
(* statement: the test of initialized, then each call through a queue      *)
(* pointer.  e.n is what poll_cq answers, e.rearm what rearm_notify        *)
(* returns, e.ub the outcome of a call through a dangling pointer.  The    *)
(* step yields the next statement, the Device, the value returned and the  *)
(* queue it called through.                                                *)
(***************************************************************************)
PollerOps == {"poll_tx_cq", "poll_rx_cq", "rearm_cqs"}

PollerEnv == [n : PollResults, rearm : Errnos, ub : Outcomes]

\* the statement after the test of initialized
FirstCall(op) ==
  IF op = "poll_tx_cq" THEN "tx_cq->poll_cq"
  ELSE IF op = "poll_rx_cq" THEN "rx_cq->poll_cq"
  ELSE "tx_cq->rearm_notify"

\* the method a statement belongs to
OpOf(pc) ==
  IF pc \in PollerOps THEN pc
  ELSE IF pc = "tx_cq->poll_cq" THEN "poll_tx_cq"
  ELSE IF pc = "rx_cq->poll_cq" THEN "poll_rx_cq"
  ELSE "rearm_cqs"

\* the test if (!initialized) (l.337, l.345, l.355)
uninitialized(v) == ~v.initialized

PollerStep(pc, v, e) ==
  LET at(next, w, ret, q) ==
        [pc |-> IF w.fatal THEN "fatal" ELSE next, v |-> w, ret |-> ret,
         on |-> q]
  IN
  CASE pc \in PollerOps ->
         IF uninitialized(v) THEN at("done", v, 0, "none")
         ELSE at(FirstCall(pc), v, 0, "none")
    [] pc = "tx_cq->poll_cq" ->
         at("done", Deref(v, "tx_cq", e.ub, v), e.n, "tx_cq")
    [] pc = "rx_cq->poll_cq" ->
         at("done", Deref(v, "rx_cq", e.ub, v), e.n, "rx_cq")
    [] pc = "tx_cq->rearm_notify" ->       \* ret = ...; assert(!ret)
         at("rx_cq->rearm_notify",
            Deref(v, "tx_cq", e.ub, IF e.rearm # 0 THEN Fatal(v) ELSE v),
            0, "tx_cq")
    [] pc = "rx_cq->rearm_notify" ->
         at("done",
            Deref(v, "rx_cq", e.ub, IF e.rearm # 0 THEN Fatal(v) ELSE v),
            0, "rx_cq")

\* a whole call from statement pc; on collects the queues called through
RECURSIVE RunPoller(_, _, _, _)
RunPoller(pc, v, e, on) ==
  LET s == PollerStep(pc, v, e)
      t == IF s.on = "none" THEN on ELSE on \cup {s.on}
  IN IF s.pc \in {"done", "fatal"} THEN [v |-> s.v, ret |-> s.ret, on |-> t]
     ELSE RunPoller(s.pc, s.v, e, t)

rearm_cqs(v, e) == RunPoller("rearm_cqs", v, e, {})

(***************************************************************************)
(* The cursor DeviceList::last_poll_dev: a signed int, CursorBits wide in  *)
(* the model.  ++ at the maximum is a signed overflow (wraps or traps), %  *)
(* is C++ remainder (sign of the dividend), an index outside the array an  *)
(* out-of-bounds read of devices[] that yields a stray pointer.            *)
(***************************************************************************)
CppRem(a, n) == IF a >= 0 THEN a % n ELSE 0 - ((0 - a) % n)

\* the marker of *d after an out-of-bounds read of devices[]
Stray == 0 - 1

\* e.res[d] is what device d's queue would answer, e.overflow and e.oob the
\* outcomes of the undefined steps: the read through a stray Device pointer
\* faults, or finds initialized clear and makes poll_*_cq return 0
PollEnv ==
  [res : [Dev -> PollResults], overflow : {"wrap", "trap"},
   oob : {"crash", "skip"}]

\* the test that ends the scan (l.424, l.439)
stop_scan(n) == n # 0

(***************************************************************************)
(* The loop of DeviceList::poll_tx / poll_rx (l.416-444) from iteration i. *)
(* s.cursor is last_poll_dev, s.n and s.out the locals n and *d,           *)
(* s.attempts the indices used and s.rets the results got, in order.       *)
(***************************************************************************)
RECURSIVE PollLoop(_, _, _, _, _)
PollLoop(i, s, q, devs, e) ==
  IF i >= NumDevices \/ s.crash \/ stop_scan(s.n) THEN s
  ELSE
    LET over == (s.cursor = IntMax)
        c == IF over THEN IntMin ELSE s.cursor + 1
        idx == CppRem(c, NumDevices)
        t == [s EXCEPT !.cursor = c, !.attempts = Append(@, idx)]
    IN IF over /\ e.overflow = "trap" THEN [s EXCEPT !.crash = TRUE]
       ELSE IF idx \notin Dev
       THEN IF e.oob = "crash" THEN [t EXCEPT !.crash = TRUE, !.out = Stray]
            ELSE PollLoop(i + 1,
                          [t EXCEPT !.n = 0, !.out = Stray,
                                    !.rets = Append(@, 0)],
                          q, devs, e)
       ELSE LET r == poll_cq(devs[idx], q, e.res[idx], e.oob) IN
            IF r.crash THEN [t EXCEPT !.crash = TRUE, !.out = idx]
            ELSE PollLoop(i + 1,
                          [t EXCEPT !.n = r.n, !.out = idx,
                                    !.rets = Append(@, r.n)],
                          q, devs, e)

poll(q, cursor, devs, e) ==
  PollLoop(0, [cursor |-> cursor, attempts |-> <<>>, rets |-> <<>>,
               n |-> 0, out |-> Stray, crash |-> FALSE], q, devs, e)

(***************************************************************************)
(* DeviceList::poll_blocking (l.446-472).                                  *)
(***************************************************************************)
\* the loop test without the done flag
keep_waiting_no_done(done, r) == r = 0

\* the loop test (l.449)
keep_waiting(done, r) == ~done /\ r = 0

\* the descriptors of poll_fds that poll() reports: a channel with an event
\* to read, or a descriptor closed with its channel (POLLNVAL)
Ready(devs) ==
  {x \in Dev \X Channels :
     devs[x[1]].pending[x[2]] > 0 \/ ~IsLive(devs[x[1]], x[2])}

\* CompletionChannel::get_cq_event on channel field cc: takes one pending
\* event, which then waits to be acknowledged
get_cq_event(v, cc, ub) ==
  Deref(v, cc, ub,
        IF IsLive(v, cc) /\ v.pending[cc] > 0
        THEN [v EXCEPT !.pending[cc] = @ - 1, !.unacked[cc] = @ + 1]
        ELSE v)

\* the drain loop without the receive channels
Drain_tx_only(devs, ub) ==
  [d \in Dev |-> get_cq_event(devs[d], "tx_cc", ub)]

\* the drain loop (l.461-469) over every device
Drain(devs, ub) ==
  [d \in Dev |->
     LET a == get_cq_event(devs[d], "tx_cc", ub) IN
     IF a.fatal THEN a ELSE get_cq_event(a, "rx_cc", ub)]

(***************************************************************************)
(* State.  devices[d] is Device d, last_poll_dev the cursor, crashed the   *)
(* fault of a polling call, thr the statement each thread of the           *)
(* concurrent specification is at, pb the locals of a running              *)
(* poll_blocking, last the record of the latest call: its arguments, what  *)
(* it returned, was = the device's initialized flag when it was called,    *)
(* hw = the hardware failed nothing during it.                             *)
(***************************************************************************)
\* Device::Device (l.111-136): both channels created, nothing else.
\* poll_fds are the entries 2d and 2d + 1 of DeviceList::poll_fds, kept with
\* Device d: the channel objects whose descriptors were registered
\* (l.384-390); no statement writes them again.
Constructed ==
  [initialized |-> FALSE, lock |-> FALSE, fatal |-> FALSE,
   ptr |-> [k \in Kinds |-> IF k \in Opened THEN 1 ELSE 0],
   made |-> [k \in Kinds |-> IF k \in Opened THEN 1 ELSE 0],
   live |-> [k \in Kinds |-> IF k \in Opened THEN {1} ELSE {}],
   bound |-> [q \in Queues |-> 0],
   posted |-> {}, cluster |-> {}, tried |-> [c \in 1 .. MaxChunks |-> 0],
   pending |-> [c \in Channels |-> 0],
   unacked |-> [c \in Channels |-> 0],
   device_attr |-> [max_srq_wr |-> 2, max_qp_wr |-> 2],
   conf |-> [ms_async_rdma_receive_buffers |-> 1,
             ms_async_rdma_send_buffers |-> 1,
             ms_async_rdma_local_gid |-> <<>>,
             ms_async_rdma_roce_ver |-> 1],
   ports |-> <<[query_fails |-> FALSE, state |-> "active",
                gid_tbl |-> <<[type |-> 1, gid |-> [i \in 1 .. GidLen |-> 0]]>>,
                gid_fails |-> {}]>>,
   max_recv_wr |-> 0, max_send_wr |-> 0,
   active_port |-> NoPort,
   poll_fds |-> [c \in Channels |-> 1],
   destroyed |-> FALSE]

NoCall ==
  [op |-> "none", dev |-> Stray, start |-> 0, attempts |-> <<>>,
   rets |-> <<>>, ret |-> 0, out |-> Stray, nocompl |-> FALSE,
   sub |-> [ret |-> 0, errno |-> 0], was |-> FALSE, hw |-> FALSE,
   done0 |-> FALSE,
   waits |-> 0, drains |-> 0, port |-> NoPort, arg |-> 0, qp |-> NoQp,
   rearmed |-> {}, twice |-> {}]

\* every thread between calls: the one calling init(), the one calling
\* uninit() and the poller
ThrIdle == [init |-> "lock", uninit |-> "check", poll |-> "idle"]

PbIdle == [pc |-> "idle", r |-> 0, done |-> FALSE, done0 |-> FALSE, waits |-> 0]

\* DeviceList::DeviceList (l.366-392)
Init ==
  /\ devices = [d \in Dev |-> Constructed]
  /\ last_poll_dev = 0
  /\ crashed = FALSE
  /\ last = NoCall
  /\ thr = ThrIdle
  /\ pb = PbIdle

\* the process is gone: a ceph_abort, a failed assert or a fault
Aborted == crashed \/ \E d \in Dev : devices[d].fatal

\* no call is running
Quiet ==
  /\ ~Aborted
  /\ thr = ThrIdle
  /\ pb.pc = "idle"

(***************************************************************************)
(* The calls, each a whole handler.                                        *)
(***************************************************************************)
DevInitIn(d, E) ==
  /\ Quiet
  /\ devices[d].initialized \/ devices[d].made["pd"] < MaxInits
  /\ \E e \in E :
       /\ devices' = [devices EXCEPT ![d] = init(@, e)]
       /\ last' = [NoCall EXCEPT !.op = "init", !.dev = d,
                                 !.was = devices[d].initialized,
                                 !.hw = HardwareOk(e)]
  /\ UNCHANGED <<last_poll_dev, crashed, thr, pb>>

DevInit(d) == DevInitIn(d, InitEnv)

\* init() where the hardware fails nothing
DevInitOk(d) == DevInitIn(d, InitOk)

DevUninit(d) ==
  /\ Quiet
  /\ \E ub \in Outcomes :
       devices' = [devices EXCEPT ![d] = uninit(@, ub)]
  /\ last' = [NoCall EXCEPT !.op = "uninit", !.dev = d,
                            !.was = devices[d].initialized]
  /\ UNCHANGED <<last_poll_dev, crashed, thr, pb>>

\* Device::post_chunk on an initialized device, chunk c, submission sub
PostChunk(d) ==
  /\ Quiet
  /\ devices[d].initialized
  /\ \E c \in 1 .. MaxChunks, sub \in Submissions :
       /\ devices' = [devices EXCEPT ![d] = Submit(@, c, sub)]
       /\ last' = [NoCall EXCEPT !.op = "post_chunk", !.dev = d, !.sub = sub,
                                 !.ret = post_chunk(sub)]
  /\ UNCHANGED <<last_poll_dev, crashed, thr, pb>>

Poll(op, q) ==
  /\ Quiet
  /\ \E e \in PollEnv :
       LET s == poll(q, last_poll_dev, devices, e) IN
       /\ last_poll_dev' = s.cursor
       /\ crashed' = s.crash
       /\ last' = [NoCall EXCEPT
                     !.op = op, !.start = last_poll_dev,
                     !.attempts = s.attempts, !.rets = s.rets,
                     !.ret = s.n, !.out = s.out,
                     !.nocompl = \A d \in Dev :
                                   devices[d].initialized => e.res[d] = 0]
  /\ UNCHANGED <<devices, thr, pb>>

PollTx == Poll("poll_tx", "tx_cq")

PollRx == Poll("poll_rx", "rx_cq")

\* the hardware signals a completion on a channel that has a queue on it
ChannelEvent(d) ==
  /\ ~Aborted
  /\ devices[d].initialized
  /\ \E q \in Queues :
       LET cc == ChannelOf(q) IN
       /\ IsLive(devices[d], q) /\ devices[d].bound[q] \in devices[d].live[cc]
       /\ devices[d].pending[cc] + devices[d].unacked[cc] < MaxEvents
       /\ devices' = [devices EXCEPT ![d].pending[cc] = @ + 1]
  /\ last' = [NoCall EXCEPT !.op = "event", !.dev = d]
  /\ UNCHANGED <<last_poll_dev, crashed, thr, pb>>

(***************************************************************************)
(* poll_blocking runs while another thread may set the caller's done flag, *)
(* so it is split at the wait: the call (r = 0), each turn of the loop     *)
(* (one poll() with a timeout), and the exit of the loop with the drain    *)
(* and the return.  w is what poll() answers when nothing is ready: 0 (the *)
(* timeout) or -1 (an error).                                              *)
(***************************************************************************)
PbCall ==
  /\ Quiet
  /\ \E done \in BOOLEAN :
       pb' = [pc |-> "loop", r |-> 0, done |-> done, done0 |-> done, waits |-> 0]
  /\ last' = [NoCall EXCEPT !.op = "poll_blocking_call"]
  /\ UNCHANGED <<devices, last_poll_dev, crashed, thr>>

PbWait ==
  /\ ~Aborted
  /\ pb.pc = "loop"
  /\ keep_waiting(pb.done, pb.r)
  /\ pb.waits < MaxWaits
  /\ \E w \in {-1, 0} :
       LET r == IF w = 0 THEN Cardinality(Ready(devices)) ELSE w IN
       /\ pb' = [pb EXCEPT !.r = r, !.waits = @ + 1]
       /\ crashed' = (r < 0)                \* ceph_abort (l.451-455)
  /\ UNCHANGED <<devices, last_poll_dev, last, thr>>

\* the thread that owns the flag sets it
PbSetDone ==
  /\ ~Aborted
  /\ pb.pc = "loop"
  /\ ~pb.done
  /\ pb' = [pb EXCEPT !.done = TRUE]
  /\ UNCHANGED <<devices, last_poll_dev, crashed, last, thr>>

PbReturn ==
  /\ ~Aborted
  /\ pb.pc = "loop"
  /\ ~keep_waiting(pb.done, pb.r)
  /\ \E ub \in Outcomes :
       LET drain == ~(pb.r <= 0) IN         \* if (r <= 0) return r
       /\ devices' = IF drain THEN Drain(devices, ub) ELSE devices
       /\ last' = [NoCall EXCEPT !.op = "poll_blocking", !.ret = pb.r,
                                 !.done0 = pb.done0, !.waits = pb.waits,
                                 !.drains = IF drain THEN 2 * NumDevices ELSE 0]
  /\ pb' = PbIdle
  /\ UNCHANGED <<last_poll_dev, crashed, thr>>

(***************************************************************************)
(* One Device through its life, its receive queue and the blocking wait.   *)
(***************************************************************************)
Next ==
  \/ DevInit(0)
  \/ DevUninit(0)
  \/ PostChunk(0)
  \/ ChannelEvent(0)
  \/ PbCall
  \/ PbWait
  \/ PbSetDone
  \/ PbReturn

Spec == Init /\ [][Next]_vars

(***************************************************************************)
(* Every Device through its life, and the round-robin polls.               *)
(***************************************************************************)
NextPoll ==
  \/ \E d \in Dev : DevInitOk(d)
  \/ \E d \in Dev : DevUninit(d)
  \/ PollTx
  \/ PollRx

SpecPoll == Init /\ [][NextPoll]_vars

(***************************************************************************)
(* Properties of the Device lifecycle.                                     *)
(***************************************************************************)
AllPresent(v) == \A k \in Owned : IsLive(v, k)

NoneHeld(v) == \A k \in Owned : v.live[k] = {}

\* C1: between calls, the five owned resources of a Device (protection
\* domain, memory manager, shared receive queue, both completion queues) are
\* all present with initialized = true, or none of them is held and
\* initialized = false.
C1_AllOrNothing ==
  \A d \in Dev :
    Quiet =>
      \/ devices[d].initialized /\ AllPresent(devices[d])
      \/ ~devices[d].initialized /\ NoneHeld(devices[d])

\* an uninit() of an initialized device has returned
C1_Witness ==
  /\ Quiet
  /\ last.op = "uninit" /\ last.was
  /\ devices[0].made["pd"] = 1 /\ ~devices[0].initialized

\* C2: init() on an initialized Device and uninit() on an uninitialized one
\* change no field of the Device: no resource is created or released, no
\* event acknowledged.
C2_Idempotent ==
  [][\A d \in Dev :
       (/\ last'.dev = d
        /\ \/ last'.op = "init" /\ devices[d].initialized
           \/ last'.op = "uninit" /\ ~devices[d].initialized)
       => devices' = devices]_vars

\* init() was called on an initialized device that holds an unread event
C2_Witness ==
  /\ Quiet
  /\ last.op = "init" /\ last.was
  /\ \E c \in Channels : devices[0].pending[c] > 0

\* C3: after init(); uninit(); init() on hardware that fails nothing, the
\* second init() has returned with initialized = true, and the completion
\* queues it created are bound to live completion channels.
C3_ReinitLive ==
  \A d \in Dev :
    (last.op = "init" /\ last.dev = d /\ last.hw /\ devices[d].made["pd"] = 2)
    => /\ ~devices[d].fatal
       /\ devices[d].initialized
       /\ \A q \in Queues :
            /\ IsLive(devices[d], q)
            /\ IsLive(devices[d], ChannelOf(q))
            /\ devices[d].bound[q] \in devices[d].live[ChannelOf(q)]

\* C8: poll_blocking(done) with done already true returns 0 without running
\* the wait primitive and without taking an event from any channel.
C8_DoneReturnsAtOnce ==
  [][(pb.pc = "loop" /\ last'.op = "poll_blocking" /\ last'.done0)
     => (last'.ret = 0 /\ last'.waits = 0 /\ devices' = devices)]_vars

\* poll_blocking returned after a call with done set while an event was unread
C8_Witness ==
  /\ last.op = "poll_blocking" /\ last.done0
  /\ \E c \in Channels : devices[0].pending[c] > 0

\* C9: post_chunk returns 0 exactly when the submission succeeded, and a
\* strictly negative code whenever the submission failed, whatever errno is.
C9_PostChunkResult ==
  last.op = "post_chunk" =>
    /\ (last.ret = 0) <=> (last.sub.ret = 0)
    /\ last.sub.ret # 0 => last.ret < 0

\* C10: a Device that init() left initialized has each chunk of the receive
\* pool submitted once and queued in the shared receive queue, and the pool
\* was not empty; any failed submission keeps the device uninitialized.
C10_ClusterPosted ==
  \A d \in Dev :
    (last.op = "init" /\ last.dev = d /\ ~last.was /\ devices[d].initialized)
    => /\ devices[d].cluster # {}
       /\ devices[d].posted = devices[d].cluster
       /\ \A c \in devices[d].cluster : devices[d].tried[c] = 1

\* C14: at all times between calls, the two descriptors registered for
\* every Device are those of its current transmit and receive completion
\* channels, and these channels are live, so that poll_blocking waits on
\* and drains no released channel.
C14_DescriptorsCurrent ==
  \A d \in Dev : \A c \in Channels :
    (Quiet /\ ~devices[d].lock) =>
      /\ devices[d].poll_fds[c] = devices[d].ptr[c]
      /\ devices[d].poll_fds[c] \in devices[d].live[c]

(***************************************************************************)
(* Properties of the round-robin polls.                                    *)
(***************************************************************************)
IsPoll == last.op \in {"poll_tx", "poll_rx"}

\* the devices a rotation of n attempts from cursor value c visits
Rotation(c, n) == [i \in 1 .. n |-> (c + i) % NumDevices]

\* C5: a poll_tx/poll_rx call that finds no completion on any device polls
\* the devices (start+1) mod N, (start+2) mod N, ... in this order, once
\* each, returns 0 and leaves the cursor at start + N, so that consecutive
\* such calls form one continuous rotation.
C5_ContinuousRotation ==
  (IsPoll /\ last.nocompl) =>
    /\ ~crashed
    /\ last.attempts = Rotation(last.start, NumDevices)
    /\ last.ret = 0
    /\ last_poll_dev = last.start + NumDevices

\* C6: a poll_tx/poll_rx call advances the cursor by one per attempt, polls
\* no device twice, stops only at a device that yields at least one
\* completion, then returns that count with out_device and the cursor at
\* that device, and returns 0 only after polling every device in vain.
C6_StopAtFirstCompletion ==
  IsPoll =>
    LET n == Len(last.attempts) IN
    /\ ~crashed
    /\ last_poll_dev = last.start + n
    /\ \A i \in 1 .. n : last.attempts[i] \in Dev
    /\ \A i, j \in 1 .. n : i # j => last.attempts[i] # last.attempts[j]
    /\ Len(last.rets) = n
    /\ \A i \in 1 .. (n - 1) : last.rets[i] = 0
    /\ last.ret >= 0
    /\ last.ret > 0 =>
         /\ last.rets[n] = last.ret
         /\ last.out = last.attempts[n]
         /\ last_poll_dev % NumDevices = last.out
    /\ last.ret = 0 =>
         /\ n = NumDevices
         /\ last.rets[n] = 0

(***************************************************************************)
(* The limits of init over the capabilities a device may report and the    *)
(* counts that may be configured.                                          *)
(***************************************************************************)
Capabilities == {0, 1, IntMax}
Counts == {0, 1, IntMax, IntMax + 1, UintMax}

InitLimits ==
  /\ \E a \in [max_srq_wr : Capabilities, max_qp_wr : Capabilities],
        r \in Counts, s \in Counts :
       devices = [d \in Dev |->
                    [Constructed EXCEPT
                       !.device_attr = a,
                       !.conf.ms_async_rdma_receive_buffers = r,
                       !.conf.ms_async_rdma_send_buffers = s]]
  /\ last_poll_dev = 0
  /\ crashed = FALSE
  /\ last = NoCall
  /\ thr = ThrIdle
  /\ pb = PbIdle

NextLimits == DevInitOk(0) \/ DevUninit(0)

SpecLimits == InitLimits /\ [][NextLimits]_vars

\* C11: after init() has initialized a Device, max_recv_wr is the smaller of
\* the capability max_srq_wr and the configured receive-buffer count, and
\* max_send_wr the smaller of max_qp_wr and the configured send-buffer
\* count, for every capability and every configured count, also a count
\* above the maximum of int.
C11_LimitsAreMin ==
  \A d \in Dev :
    (last.op = "init" /\ last.dev = d /\ ~last.was /\ devices[d].initialized)
    => LET v == devices[d] IN
       /\ v.max_recv_wr = work_requests_uncast(
                              v.device_attr.max_srq_wr,
                              v.conf.ms_async_rdma_receive_buffers)
       /\ v.max_send_wr = work_requests_uncast(
                              v.device_attr.max_qp_wr,
                              v.conf.ms_async_rdma_send_buffers)
       /\ v.max_recv_wr <= v.device_attr.max_srq_wr
       /\ v.max_recv_wr <= v.conf.ms_async_rdma_receive_buffers

(***************************************************************************)
(* The construction of a Port over the GID tables a port may have and the  *)
(* targets that may be configured.                                         *)
(***************************************************************************)
Tables == UNION {[1 .. n -> [type : RoceVers, gid : Gids]] : n \in 0 .. MaxTable}
Targets == UNION {[1 .. n -> Bytes] : n \in 0 .. (GidLen + 1)}

InitPort ==
  /\ \E tbl \in Tables, str \in Targets, ver \in RoceVers,
        f \in {{}, {0}} :
       devices = [d \in Dev |->
                    [Constructed EXCEPT
                       !.conf.ms_async_rdma_local_gid = str,
                       !.conf.ms_async_rdma_roce_ver = ver,
                       !.ports = <<[query_fails |-> FALSE, state |-> "active",
                                    gid_tbl |-> tbl, gid_fails |-> f]>>]]
  /\ last_poll_dev = 0
  /\ crashed = FALSE
  /\ last = NoCall
  /\ thr = ThrIdle
  /\ pb = PbIdle

\* new Port(cct, ctxt, ipn) on Device d
NewPort(d) ==
  /\ Quiet
  /\ last.op = "none"
  /\ \E ipn \in 1 .. Len(devices[d].ports) :
       LET p == Port(devices[d].ports[ipn], devices[d].conf, ipn) IN
       /\ last' = [NoCall EXCEPT !.op = "port", !.dev = d, !.port = p]
       /\ crashed' = p.fatal
  /\ UNCHANGED <<devices, last_poll_dev, thr, pb>>

NextPort == NewPort(0)

SpecPort == InitPort /\ [][NextPort]_vars

\* the table indices whose entry has the configured type and the target's value
Matching(hw, conf) ==
  {i \in 0 .. (Len(hw.gid_tbl) - 1) :
     /\ hw.gid_tbl[i + 1].type = conf.ms_async_rdma_roce_ver
     /\ hw.gid_tbl[i + 1].gid
          = SubSeq(conf.ms_async_rdma_local_gid, 1, GidLen)}

\* C12: when no query fails, a Port constructed for a well-formed target
\* selects the smallest table index whose type is the configured protocol
\* version and whose value is the target, and fails fatally when no entry
\* matches; for a malformed target it selects index 0 without a fatal
\* outcome, whatever the contents and the length of the table.
C12_GidSelection ==
  \A d \in Dev :
    (last.op = "port" /\ last.dev = d) =>
      LET hw == devices[d].ports[last.port.port_num]
          conf == devices[d].conf
          wellformed == Len(conf.ms_async_rdma_local_gid) >= GidLen
          M == Matching(hw, conf)
      IN hw.gid_fails = {} =>
           /\ (wellformed /\ M # {}) =>
                 /\ ~last.port.fatal
                 /\ last.port.gid_idx \in M
                 /\ \A i \in M : last.port.gid_idx <= i
           /\ (wellformed /\ M = {}) => last.port.fatal
           /\ ~wellformed => (~last.port.fatal /\ last.port.gid_idx = 0)

(***************************************************************************)
(* binding_port over the ports a device may have.  The GID table of every  *)
(* port has an entry and no target is configured, so that a Port whose     *)
(* query succeeds is constructed with GID index 0.                         *)
(***************************************************************************)
HwPorts ==
  {[query_fails |-> f, state |-> st, gid_fails |-> {},
    gid_tbl |-> <<[type |-> 1, gid |-> [i \in 1 .. GidLen |-> 0]]>>] :
     f \in BOOLEAN, st \in {"active", "down"}}

InitBind ==
  /\ \E ports \in UNION {[1 .. n -> HwPorts] : n \in 0 .. MaxPorts} :
       devices = [d \in Dev |-> [Constructed EXCEPT !.ports = ports]]
  /\ last_poll_dev = 0
  /\ crashed = FALSE
  /\ last = NoCall
  /\ thr = ThrIdle
  /\ pb = PbIdle

\* binding_port(cct, port_num) on Device d
DevBind(d) ==
  /\ Quiet
  /\ devices[d].made["active_port"] < MaxInits * MaxPorts
  /\ \E port_num \in 1 .. (MaxPorts + 1) :
       /\ devices' = [devices EXCEPT ![d] = binding_port(@, port_num)]
       /\ last' = [NoCall EXCEPT !.op = "binding_port", !.dev = d,
                                 !.arg = port_num]
  /\ UNCHANGED <<last_poll_dev, crashed, thr, pb>>

NextBind == DevBind(0)

SpecBind == InitBind /\ [][NextBind]_vars

\* port p exists, answers the query and its link is active
Usable(v, p) ==
  /\ p \in 1 .. Len(v.ports)
  /\ ~v.ports[p].query_fails
  /\ v.ports[p].state = "active"

\* C15: binding_port(p) returns normally exactly when port p exists and its
\* link is active, and then active_port is the Port numbered p; ports with
\* other numbers and a Port bound by an earlier call make no difference.
C15_BindingPort ==
  \A d \in Dev :
    (last.op = "binding_port" /\ last.dev = d) =>
      LET v == devices[d] IN
      /\ ~v.fatal <=> Usable(v, last.arg)
      /\ ~v.fatal =>
           /\ IsLive(v, "active_port")
           /\ v.active_port.port_num = last.arg

(***************************************************************************)
(* The queue-pair factory on a Device through its life.                    *)
(***************************************************************************)
\* create_queue_pair(cct, type) on Device d; last.ret is what
\* QueuePair::init returned
CreateQp(d) ==
  /\ Quiet
  /\ \E e \in QpEnv :
       LET r == create_queue_pair(devices[d], e) IN
       /\ crashed' = r.fatal
       /\ last' = [NoCall EXCEPT !.op = "create_queue_pair", !.dev = d,
                                 !.ret = e.qp_init, !.qp = r.qp]
  /\ UNCHANGED <<devices, last_poll_dev, thr, pb>>

NextQp == DevBind(0) \/ DevInit(0) \/ DevUninit(0) \/ CreateQp(0)

SpecQp == Init /\ [][NextQp]_vars

\* C13: in every state of the Device, create_queue_pair returns null
\* exactly when QueuePair::init fails, and a queue pair it returns is bound
\* to the live active port, the live current shared receive queue and
\* completion queues, and the computed limits of the Device.
C13_QueuePairWired ==
  \A d \in Dev :
    (last.op = "create_queue_pair" /\ last.dev = d) =>
      LET v == devices[d] IN
      /\ ~crashed
      /\ last.qp.null <=> last.ret # 0
      /\ ~last.qp.null =>
           /\ IsLive(v, "active_port")
           /\ last.qp.port_num = v.active_port.port_num
           /\ \A k \in {"srq", "tx_cq", "rx_cq"} :
                IsLive(v, k) /\ last.qp[k] = v.ptr[k]
           /\ last.qp.max_send_wr = v.max_send_wr
           /\ last.qp.max_recv_wr = v.max_recv_wr

(***************************************************************************)
(* The polls from every value the cursor may hold: the constructor         *)
(* (l.366-392) does not set last_poll_dev.                                 *)
(***************************************************************************)
InitCursor ==
  /\ devices = [d \in Dev |-> Constructed]
  /\ last_poll_dev \in IntMin .. IntMax
  /\ crashed = FALSE
  /\ last = NoCall
  /\ thr = ThrIdle
  /\ pb = PbIdle

SpecCursor == InitCursor /\ [][NextPoll]_vars

\* C19: every attempt of poll_tx/poll_rx selects a device with an index in
\* 0 .. N-1, the index of the attempt before plus one modulo N, within a
\* call and from one call to the next, for every value of the cursor, also
\* when the increment passes the maximum of its type.
C19_IndexInRange ==
  /\ [](IsPoll =>
          /\ ~crashed
          /\ \A i \in 1 .. Len(last.attempts) : last.attempts[i] \in Dev
          /\ \A i \in 1 .. (Len(last.attempts) - 1) :
               last.attempts[i + 1] = (last.attempts[i] + 1) % NumDevices)
  /\ [][(/\ IsPoll /\ last.attempts # <<>>
         /\ last'.op \in {"poll_tx", "poll_rx"} /\ last'.attempts # <<>>
         /\ last' # last)
        => last'.attempts[1]
             = (last.attempts[Len(last.attempts)] + 1) % NumDevices]_vars

(***************************************************************************)
(* A Device from its construction to its destruction.                      *)
(***************************************************************************)
\* delete devices[d] (l.398-400)
Destroy(d) ==
  /\ Quiet
  /\ \E e \in DestroyEnv :
       LET r == destroy(devices[d], e) IN
       /\ devices' = [devices EXCEPT ![d] = r.v]
       /\ last' = [NoCall EXCEPT !.op = "destroy", !.dev = d,
                                 !.twice = r.twice]
  /\ UNCHANGED <<last_poll_dev, crashed, thr, pb>>

\* the calls a Device takes until it is deleted
LifeBind == ~devices[0].destroyed /\ DevBind(0)

LifeInit == ~devices[0].destroyed /\ DevInit(0)

LifeUninit == ~devices[0].destroyed /\ DevUninit(0)

LifeDestroy == ~devices[0].destroyed /\ Destroy(0)

NextLife == LifeBind \/ LifeInit \/ LifeUninit \/ LifeDestroy

SpecLife == Init /\ [][NextLife]_vars

\* C20: when the destructor of a Device has run, after any calls of
\* binding_port, init() and uninit(), it has not failed, no object the
\* Device created is left unreleased (native handle, channels, protection
\* domain, memory manager, shared receive queue, completion queues, port),
\* and it released no object that was released before or never created.
C20_ReleasedOnce ==
  \A d \in Dev :
    devices[d].destroyed =>
      /\ ~devices[d].fatal
      /\ \A k \in Kinds : devices[d].live[k] = {}
      /\ last.twice = {}

(***************************************************************************)
(* The polls under a caller that keeps calling both directions.            *)
(***************************************************************************)
NextFair ==
  \/ \E d \in Dev : DevInitOk(d)
  \/ PollTx
  \/ PollRx

SpecFair ==
  Init /\ [][NextFair]_vars /\ WF_vars(PollTx) /\ WF_vars(PollRx)

\* the call just made polled queue q of device d
Polled(op, d) ==
  /\ last'.op = op
  /\ devices[d].initialized
  /\ \E i \in 1 .. Len(last'.attempts) : last'.attempts[i] = d

\* C7: when poll_tx is called again and again, the transmit completion
\* queue of every device that stays initialized is polled again and again,
\* whatever poll_rx calls come in between and whatever completions are
\* present; likewise for poll_rx and the receive queues.
C7_NoStarvation ==
  \A d \in Dev :
    /\ ([]<><<PollTx>>_vars /\ <>[]devices[d].initialized)
         => []<><<PollTx /\ Polled("poll_tx", d)>>_vars
    /\ ([]<><<PollRx>>_vars /\ <>[]devices[d].initialized)
         => []<><<PollRx /\ Polled("poll_rx", d)>>_vars

(***************************************************************************)
(* One thread calling init() and one calling uninit() on Device 0, a       *)
(* statement at a time.  thr.init = "lock" and thr.uninit = "check" are    *)
(* the threads between calls.                                              *)
(***************************************************************************)
RaceInit ==
  /\ ~Aborted
  /\ thr.init = "lock" =>
       /\ ~devices[0].lock
       /\ devices[0].made["pd"] < MaxInits
  /\ \E e \in InitEnv :
       LET s == InitStep(thr.init, devices[0], e) IN
       /\ devices' = [devices EXCEPT ![0] = s.v]
       /\ thr' = [thr EXCEPT !.init = IF s.pc = "done" THEN "lock" ELSE s.pc]
  /\ UNCHANGED <<last_poll_dev, crashed, last, pb>>

RaceUninit ==
  /\ ~Aborted
  /\ \E ub \in Outcomes :
       LET s == UninitStep(thr.uninit, devices[0], ub) IN
       /\ devices' = [devices EXCEPT ![0] = s.v]
       /\ thr' = [thr EXCEPT !.uninit = IF s.pc = "done" THEN "check" ELSE s.pc]
  /\ UNCHANGED <<last_poll_dev, crashed, last, pb>>

NextRace == RaceInit \/ RaceUninit

SpecRace == Init /\ [][NextRace]_vars

\* init() has created its first object and not yet set the flag
InitCreating ==
  thr.init \in {"nonblock", "limits", "mm", "srq", "cluster", "tx_cq", "rx_cq", "flag"}

\* uninit() has cleared the flag and not yet released the last object
UninitReleasing ==
  thr.uninit \in {"del_rx_cq", "del_tx_cq", "del_rx_cc", "del_tx_cc",
                  "del_srq", "del_mm", "del_pd"}

\* C4: init() and uninit() on one Device exclude each other: uninit() is
\* never in the middle of releasing the resources while init() is in the
\* middle of creating them.
C4_MutualExclusion == ~(InitCreating /\ UninitReleasing)

(***************************************************************************)
(* One caller at a time on Device 0, a statement at a time: init() and     *)
(* uninit() never overlap each other nor a poll_blocking call, and         *)
(* completion events arrive and are drained in between.                    *)
(***************************************************************************)
StepInit == thr.uninit = "check" /\ pb.pc = "idle" /\ RaceInit

StepUninit == thr.init = "lock" /\ pb.pc = "idle" /\ RaceUninit

NextSteps ==
  \/ StepInit
  \/ StepUninit
  \/ ChannelEvent(0)
  \/ PbCall
  \/ PbWait
  \/ PbSetDone
  \/ PbReturn

SpecSteps == Init /\ [][NextSteps]_vars

\* this step releases the object of kind k of Device 0
Releases(k) ==
  /\ devices'[0].live[k] # devices[0].live[k]
  /\ devices'[0].live[k] \subseteq devices[0].live[k]

\* C16: uninit() on an initialized Device acknowledges the events of both
\* channels before it clears initialized, clears initialized before it
\* releases anything, releases a completion queue while the channel the
\* queue is on is still live, a channel only after both completion queues,
\* the shared receive queue only after the queues and the channels, the
\* memory manager after the shared receive queue, and the protection domain
\* after the memory manager.
C16_UninitOrder ==
  [][thr.uninit # "check" =>
       LET v == devices[0] IN
       /\ (v.initialized /\ ~devices'[0].initialized) =>
            \A c \in Channels : v.unacked[c] = 0
       /\ \A k \in Kinds : Releases(k) => ~v.initialized
       /\ \A q \in Queues :
            Releases(q) => v.bound[q] \in v.live[ChannelOf(q)]
       /\ \A c \in Channels :
            Releases(c) => \A q \in Queues : v.live[q] = {}
       /\ Releases("srq") =>
            \A k \in Queues \cup Channels : v.live[k] = {}
       /\ Releases("memory_manager") => v.live["srq"] = {}
       /\ Releases("pd") => v.live["memory_manager"] = {}]_vars

(***************************************************************************)
(* poll_blocking under a thread that keeps running: a wait ends within its *)
(* timeout and the call goes on to its next statement.  PbWaitOn is a wait *)
(* past the MaxWaits the model counts.                                     *)
(***************************************************************************)
PbWaitOn ==
  /\ ~Aborted
  /\ pb.pc = "loop"
  /\ keep_waiting(pb.done, pb.r)
  /\ pb.waits = MaxWaits
  /\ \E w \in {-1, 0} :
       LET r == IF w = 0 THEN Cardinality(Ready(devices)) ELSE w IN
       /\ pb' = [pb EXCEPT !.r = r]
       /\ crashed' = (r < 0)                \* ceph_abort (l.451-455)
  /\ UNCHANGED <<devices, last_poll_dev, last, thr>>

NextWait ==
  \/ DevInitOk(0)
  \/ DevUninit(0)
  \/ ChannelEvent(0)
  \/ PbCall
  \/ PbWait
  \/ PbWaitOn
  \/ PbSetDone
  \/ PbReturn

SpecWait ==
  /\ Init /\ [][NextWait]_vars
  /\ WF_vars(PbWait) /\ WF_vars(PbWaitOn) /\ WF_vars(PbReturn)

\* this step is a wait of poll_blocking that changed its locals
WaitStep ==
  /\ pb.pc = "loop" /\ pb'.pc = "loop"
  /\ pb'.r # pb.r \/ pb'.waits # pb.waits

\* this step is the return of poll_blocking
ReturnStep == pb.pc = "loop" /\ pb'.pc = "idle"

\* this step took one event from every live channel that had one, on every
\* device, and nothing else
DrainedOnce ==
  \A d \in Dev : \A c \in Channels :
    LET v == devices[d]
        w == devices'[d]
    IN IF IsLive(v, c) /\ v.pending[c] > 0
       THEN w.pending[c] = v.pending[c] - 1 /\ w.unacked[c] = v.unacked[c] + 1
       ELSE w.pending[c] = v.pending[c] /\ w.unacked[c] = v.unacked[c]

RacePoll ==
  /\ ~Aborted
  /\ \E e \in PollerEnv, op \in PollerOps :
       LET pc == IF thr.poll = "idle" THEN op ELSE thr.poll
           s == PollerStep(pc, devices[0], e)
       IN /\ devices' = [devices EXCEPT ![0] = s.v]
          /\ thr' = [thr EXCEPT !.poll = IF s.pc = "done" THEN "idle" ELSE s.pc]
          /\ last' = IF s.pc = "done"
                     THEN [NoCall EXCEPT !.op = OpOf(pc), !.dev = 0,
                                         !.ret = s.ret,
                                         !.was = (pc \notin PollerOps)]
                     ELSE last
  /\ UNCHANGED <<last_poll_dev, crashed, pb>>

\* DeviceList::rearm_notify (l.474-478)
RearmNotify ==
  /\ Quiet
  /\ \E e \in PollerEnv :
       LET r == [d \in Dev |-> rearm_cqs(devices[d], e)] IN
       /\ devices' = [d \in Dev |-> r[d].v]
       /\ last' = [NoCall EXCEPT !.op = "rearm_notify",
                                 !.rearmed = {d \in Dev : r[d].on # {}}]
  /\ UNCHANGED <<last_poll_dev, crashed, thr, pb>>

NextTeardown ==
  \/ \E d \in Dev : DevInitOk(d)
  \/ DevUninit(1)
  \/ RaceUninit
  \/ RacePoll
  \/ RearmNotify

SpecTeardown == Init /\ [][NextTeardown]_vars

\* the poller is about to call through queue q and this step is that call
CallsThrough(q) ==
  /\ thr.poll \in {"tx_cq->poll_cq", "tx_cq->rearm_notify"} <=> q = "tx_cq"
  /\ thr.poll \in {"rx_cq->poll_cq", "rx_cq->rearm_notify"} <=> q = "rx_cq"
  /\ thr'.poll # thr.poll

\* C18: poll_tx_cq, poll_rx_cq and rearm_cqs call only through a live
\* completion queue, also while uninit() runs in another thread; on an
\* uninitialized Device the polls return 0, and rearm_notify re-arms
\* exactly the initialized devices.
C18_PollsLiveQueues ==
  /\ [][\A q \in Queues : CallsThrough(q) => IsLive(devices[0], q)]_vars
  /\ [](last.op \in {"poll_tx_cq", "poll_rx_cq"} /\ ~last.was => last.ret = 0)
  /\ [][(last'.op = "rearm_notify" /\ last' # last) =>
          \/ \E d \in Dev : devices'[d].fatal
          \/ last'.rearmed = {d \in Dev : devices[d].initialized}]_vars

====
